---- MODULE Spec2Model ----
(***************************************************************************)
(* DNSKEY RDATA codec of trust-dns (src/rr/rdata/dnskey.rs): read decodes  *)
(* flags, protocol, algorithm and public key from a BinDecoder, emit       *)
(* appends them to a BinEncoder.  BinDecoder, BinEncoder, Algorithm and    *)
(* RData live in other files of the crate; they are modelled from the      *)
(* interface the specification gives for them.                             *)
(***************************************************************************)
EXTENDS Integers, Sequences, FiniteSets, TLC

(* ------------------------------ bounds --------------------------------- *)
MaxBuf == 6      \* longest decoder input
MaxKey == 2      \* longest public_key of a record handed to emit
MaxPrior == 1    \* longest content of the encoder before emit
MaxOps == 7      \* longest sequence of calls of one run

(* Byte values the bounded inputs are built from: 3 is the protocol value  *)
(* and has SEP plus a reserved bit, 8 is RSASHA256 and a reserved bit,     *)
(* 5 is RSASHA1 and has SEP plus a reserved bit, 128 is REVOKE alone, 255  *)
(* sets every bit.                                                         *)
ByteVals == {3, 5, 8, 128, 255}
Byte == 0..255
U16 == 65536

(* --------------------------- result values ----------------------------- *)
NoErr == [kind |-> "none", value |-> 0]
NoRData == [tag |-> "None"]
Ok(v) == [tag |-> "Ok", val |-> v, err |-> NoErr]
Err(e) == [tag |-> "Err", val |-> NoRData, err |-> e]
Panic == [tag |-> "Panic", val |-> NoRData, err |-> NoErr]
None == [tag |-> "None", val |-> NoRData, err |-> NoErr]

EOF == [kind |-> "EOF", value |-> 0]
DnsKeyProtocolNot3(p) == [kind |-> "DnsKeyProtocolNot3", value |-> p]
UnknownAlgorithmTypeValue(b) == [kind |-> "UnknownAlgorithmTypeValue", value |-> b]

(* ------------------------- bit operations on u16 ----------------------- *)
RECURSIVE BitAnd(_, _)
BitAnd(x, y) ==
  IF x = 0 \/ y = 0 THEN 0
  ELSE (x % 2) * (y % 2) + 2 * BitAnd(x \div 2, y \div 2)

RECURSIVE BitOr(_, _)
BitOr(x, y) ==
  IF x = 0 THEN y
  ELSE IF y = 0 THEN x
  ELSE (IF x % 2 = 1 \/ y % 2 = 1 THEN 1 ELSE 0) + 2 * BitOr(x \div 2, y \div 2)

ZONE_KEY == 256             \* 0b0000_0001_0000_0000
SECURE_ENTRY_POINT == 1     \* 0b0000_0000_0000_0001
REVOKE == 128               \* 0b0000_0000_1000_0000
PROTOCOL == 3

(* ------------------------------ Algorithm ------------------------------ *)
Algorithms == {"RSASHA1", "RSASHA1NSEC3SHA1", "RSASHA256", "RSASHA512"}

AlgorithmToU8(a) ==
  CASE a = "RSASHA1" -> 5
    [] a = "RSASHA1NSEC3SHA1" -> 7
    [] a = "RSASHA256" -> 8
    [] a = "RSASHA512" -> 10

(* ------------------------------ BinDecoder ----------------------------- *)
\* a decoder is [buffer, index]; every read returns [res, index]
read_u8(d) ==
  IF d.index < Len(d.buffer)
  THEN [tag |-> "Ok", val |-> d.buffer[d.index + 1], index |-> d.index + 1]
  ELSE [tag |-> "Err", val |-> 0, index |-> d.index]

read_u16(d) ==
  IF d.index + 2 <= Len(d.buffer)
  THEN [tag |-> "Ok", val |-> d.buffer[d.index + 1] * 256 + d.buffer[d.index + 2],
        index |-> d.index + 2]
  ELSE [tag |-> "Err", val |-> 0, index |-> d.index]

read_vec(d, len) ==
  IF d.index + len <= Len(d.buffer)
  THEN [tag |-> "Ok", val |-> SubSeq(d.buffer, d.index + 1, d.index + len),
        index |-> d.index + len]
  ELSE [tag |-> "Err", val |-> <<>>, index |-> d.index]

\* Algorithm::read: one octet, an error for a code outside the enumeration
AlgorithmRead(d) ==
  LET b == read_u8(d) IN
  IF b.tag = "Err" THEN [tag |-> "Err", val |-> "", err |-> EOF, index |-> b.index]
  ELSE IF \E a \in Algorithms : AlgorithmToU8(a) = b.val
       THEN [tag |-> "Ok", val |-> CHOOSE a \in Algorithms : AlgorithmToU8(a) = b.val,
             err |-> NoErr, index |-> b.index]
       ELSE [tag |-> "Err", val |-> "", err |-> UnknownAlgorithmTypeValue(b.val),
             index |-> b.index]

(* ------------------------------ BinEncoder ----------------------------- *)
emit_u16(bytes, v) == bytes \o << v \div 256, v % 256 >>
emit_u8(bytes, b) == Append(bytes, b)
emit_vec(bytes, v) == bytes \o v
AlgorithmEmit(bytes, a) == emit_u8(bytes, AlgorithmToU8(a))

(* -------------------------------- RData -------------------------------- *)
DNSKEY(zk, sep, rev, alg, key) ==
  [tag |-> "DNSKEY", zone_key |-> zk, secure_entry_point |-> sep, revoke |-> rev,
   algorithm |-> alg, public_key |-> key]

\* variants of RData other than DNSKEY
OtherRData == {[tag |-> "NULL"], [tag |-> "DS"]}

(* ------------------------------- read ---------------------------------- *)
\* faulty variants of the flag masks: a neighbouring bit is tested
SecureEntryPointOf_Bit1(flags) == BitAnd(flags, 2) = 2
RevokeOf_Bit6(flags) == BitAnd(flags, 64) = 64

ZoneKeyOf(flags) == BitAnd(flags, ZONE_KEY) = ZONE_KEY
SecureEntryPointOf(flags) == BitAnd(flags, SECURE_ENTRY_POINT) = SECURE_ENTRY_POINT
RevokeOf(flags) == BitAnd(flags, REVOKE) = REVOKE

\* faulty variant: every protocol up to 3 is accepted
ProtocolIs3_AtMost3(protocol) == protocol <= PROTOCOL

\* protocol is defined to only be '3' right now
ProtocolIs3(protocol) == protocol = PROTOCOL

\* faulty variants: the header is not subtracted; the key is dropped
KeyLength_NoHeader(rdata_length, overflow_checks) == [tag |-> "Ok", val |-> rdata_length]
KeyLength_Zero(rdata_length, overflow_checks) == [tag |-> "Ok", val |-> 0]

\* rdata_length - 4 on u16: with overflow checks compiled in (debug build) an
\* underflow panics, without them (release build) it wraps modulo 2^16.
KeyLength(rdata_length, overflow_checks) ==
  IF rdata_length >= 4 THEN [tag |-> "Ok", val |-> rdata_length - 4]
  ELSE IF overflow_checks THEN [tag |-> "Panic", val |-> 0]
  ELSE [tag |-> "Ok", val |-> (rdata_length + U16 - 4) % U16]

read(d, rdata_length, overflow_checks) ==
  LET f == read_u16(d) IN
  IF f.tag = "Err" THEN [res |-> Err(EOF), index |-> f.index] ELSE
  LET flags == f.val
      zone_key == ZoneKeyOf(flags)
      secure_entry_point == SecureEntryPointOf(flags)
      revoke == RevokeOf(flags)
      p == read_u8([d EXCEPT !.index = f.index])
  IN
  IF p.tag = "Err" THEN [res |-> Err(EOF), index |-> p.index] ELSE
  IF ~ProtocolIs3(p.val) THEN [res |-> Err(DnsKeyProtocolNot3(p.val)), index |-> p.index] ELSE
  LET a == AlgorithmRead([d EXCEPT !.index = p.index]) IN
  IF a.tag = "Err" THEN [res |-> Err(a.err), index |-> a.index] ELSE
  LET n == KeyLength(rdata_length, overflow_checks) IN
  IF n.tag = "Panic" THEN [res |-> Panic, index |-> a.index] ELSE
  LET k == read_vec([d EXCEPT !.index = a.index], n.val) IN
  IF k.tag = "Err" THEN [res |-> Err(EOF), index |-> k.index] ELSE
  [res |-> Ok(DNSKEY(zone_key, secure_entry_point, revoke, a.val, k.val)),
   index |-> k.index]

(* ------------------------------- emit ---------------------------------- *)
\* faulty variant: revoke sets the zone key bit
EmitFlags_RevokeAsZone(r) ==
  LET f0 == 0
      f1 == IF r.zone_key THEN BitOr(f0, ZONE_KEY) ELSE f0
      f2 == IF r.secure_entry_point THEN BitOr(f1, SECURE_ENTRY_POINT) ELSE f1
      f3 == IF r.revoke THEN BitOr(f2, ZONE_KEY) ELSE f2
  IN f3

EmitFlags(r) ==
  LET f0 == 0
      f1 == IF r.zone_key THEN BitOr(f0, ZONE_KEY) ELSE f0
      f2 == IF r.secure_entry_point THEN BitOr(f1, SECURE_ENTRY_POINT) ELSE f1
      f3 == IF r.revoke THEN BitOr(f2, REVOKE) ELSE f2
  IN f3

\* faulty variant: another variant is skipped silently
emit_OkOnWrongVariant(bytes, r) ==
  IF r.tag = "DNSKEY"
  THEN [res |-> "Ok",
        bytes |-> emit_vec(AlgorithmEmit(emit_u8(emit_u16(bytes, EmitFlags(r)), PROTOCOL),
                                         r.algorithm),
                           r.public_key)]
  ELSE [res |-> "Ok", bytes |-> bytes]

\* faulty variant: the key is written behind a length octet
emit_LengthPrefix(bytes, r) ==
  IF r.tag = "DNSKEY"
  THEN [res |-> "Ok",
        bytes |-> emit_vec(emit_u8(AlgorithmEmit(emit_u8(emit_u16(bytes, EmitFlags(r)),
                                                         PROTOCOL),
                                                 r.algorithm),
                                   Len(r.public_key)),
                           r.public_key)]
  ELSE [res |-> "Panic", bytes |-> bytes]

emit(bytes, r) ==
  IF r.tag = "DNSKEY"
  THEN [res |-> "Ok",
        bytes |-> emit_vec(AlgorithmEmit(emit_u8(emit_u16(bytes, EmitFlags(r)), PROTOCOL),
                                         r.algorithm),
                           r.public_key)]
  ELSE [res |-> "Panic", bytes |-> bytes]

(* ------------------------------- state --------------------------------- *)
VARIABLES
  buffer,        \* the decoder's bytes
  index,         \* the decoder's cursor
  rdata_length,  \* the length read is called with
  read_rdata,    \* what read returned (None before the call)
  rdata,         \* the RData value of the caller
  bytes,         \* the encoder's bytes
  prior,         \* the encoder's bytes before the RDATA; the RDATA starts at Len(prior)
  emit_result,   \* what emit returned ("None" before the call)
  pc             \* the calls made so far, in order

vars == << buffer, index, rdata_length, read_rdata, rdata, bytes, prior, emit_result, pc >>

RECURSIVE SeqsUpTo(_, _)
SeqsUpTo(S, n) ==
  IF n = 0 THEN {<<>>}
  ELSE LET shorter == SeqsUpTo(S, n - 1) IN
       shorter \cup {Append(s, b) : s \in {t \in shorter : Len(t) = n - 1}, b \in S}

DnsKeys ==
  {DNSKEY(zk, sep, rev, alg, key) :
     zk \in BOOLEAN, sep \in BOOLEAN, rev \in BOOLEAN, alg \in Algorithms,
     key \in SeqsUpTo(ByteVals, MaxKey)}

\* a decoder positioned at the start of some RDATA, with a declared length
InitDecode ==
  /\ buffer \in SeqsUpTo(ByteVals, MaxBuf)
  /\ index = 0
  /\ prior = <<>>
  /\ rdata_length \in 0..(MaxBuf + 1)
  /\ read_rdata = None
  /\ rdata = NoRData
  /\ bytes = <<>>
  /\ emit_result = "None"
  /\ pc = <<>>

\* a caller holding an RData value and an encoder with some content
InitEncode ==
  /\ rdata \in DnsKeys \cup OtherRData
  /\ bytes \in SeqsUpTo(ByteVals, MaxPrior)
  /\ prior = bytes
  /\ buffer = <<>>
  /\ index = 0
  /\ rdata_length = 0
  /\ read_rdata = None
  /\ emit_result = "None"
  /\ pc = <<>>

Init == InitDecode \/ InitEncode

\* every 16-bit flags value in front of a well-formed protocol, algorithm and key
InitFlags ==
  /\ \E hi \in Byte, lo \in Byte : buffer = << hi, lo, PROTOCOL, 8, 255 >>
  /\ rdata_length \in {4, 5}
  /\ index = 0
  /\ prior = <<>>
  /\ read_rdata = None
  /\ rdata = NoRData
  /\ bytes = <<>>
  /\ emit_result = "None"
  /\ pc = <<>>

\* every protocol octet, after any flags, before a valid, invalid or missing algorithm
InitProtocol ==
  /\ \E fl \in {<< 3, 128 >>, << 255, 8 >>}, p \in Byte, tail \in SeqsUpTo({8, 255}, 2) :
        buffer = fl \o << p >> \o tail
  /\ rdata_length \in {0, 3, 4, 5}
  /\ index = 0
  /\ prior = <<>>
  /\ read_rdata = None
  /\ rdata = NoRData
  /\ bytes = <<>>
  /\ emit_result = "None"
  /\ pc = <<>>

InitWide == InitFlags \/ InitProtocol

Last(s) == IF s = <<>> THEN "" ELSE s[Len(s)]

\* read(&mut decoder, rdata_length)
Read ==
  /\ Len(pc) < MaxOps
  /\ Last(pc) \in {"", "new_decoder"}
  /\ rdata = NoRData \/ Last(pc) = "new_decoder"
  /\ \E overflow_checks \in BOOLEAN :
       LET r == read([buffer |-> buffer, index |-> index], rdata_length, overflow_checks) IN
       /\ read_rdata' = r.res
       /\ index' = r.index
  /\ pc' = Append(pc, "read")
  /\ UNCHANGED << buffer, rdata_length, rdata, bytes, prior, emit_result >>

\* emit(&mut encoder, &rdata)
Emit ==
  /\ Len(pc) < MaxOps
  /\ Last(pc) \in {"", "new_encoder"}
  /\ rdata # NoRData
  /\ LET e == emit(bytes, rdata) IN
       /\ emit_result' = e.res
       /\ bytes' = e.bytes
  /\ pc' = Append(pc, "emit")
  /\ UNCHANGED << buffer, index, rdata_length, read_rdata, rdata, prior >>

\* BinDecoder::new(encoder.as_bytes()) at the RDATA, rdata_length = bytes.len() as u16
NewDecoder ==
  /\ Len(pc) < MaxOps
  /\ Last(pc) = "emit"
  /\ emit_result = "Ok"
  /\ buffer' = bytes
  /\ index' = Len(prior)
  /\ rdata_length' = (Len(bytes) - Len(prior)) % U16
  /\ read_rdata' = None
  /\ pc' = Append(pc, "new_decoder")
  /\ UNCHANGED << rdata, bytes, prior, emit_result >>

\* read_rdata.unwrap() handed to a fresh encoder: Vec::new(), BinEncoder::new
NewEncoder ==
  /\ Len(pc) < MaxOps
  /\ Last(pc) = "read"
  /\ read_rdata.tag = "Ok"
  /\ rdata' = read_rdata.val
  /\ bytes' = <<>>
  /\ prior' = <<>>
  /\ emit_result' = "None"
  /\ pc' = Append(pc, "new_encoder")
  /\ UNCHANGED << buffer, index, rdata_length, read_rdata >>

Next == Read \/ Emit \/ NewDecoder \/ NewEncoder

Spec == Init /\ [][Next]_vars

SpecWide == InitWide /\ [][Next]_vars

(* ------------------------------ properties ----------------------------- *)
Avail == Len(buffer) - Len(prior)         \* bytes from the start of the RDATA
At(i) == buffer[Len(prior) + i]           \* i-th octet of the RDATA, from 1
AfterRead == Last(pc) = "read"
AfterEmit == Last(pc) = "emit"
AlgorithmBytes == {AlgorithmToU8(a) : a \in Algorithms}
HeaderOk == Avail >= 4 /\ At(3) = 3 /\ At(4) \in AlgorithmBytes
EndsWith(s, t) == Len(s) >= Len(t) /\ SubSeq(s, Len(s) - Len(t) + 1, Len(s)) = t
FlagsHi(r) == IF r.zone_key THEN 1 ELSE 0
FlagsLo(r) == (IF r.secure_entry_point THEN 1 ELSE 0) + (IF r.revoke THEN 128 ELSE 0)

\* C1: emit of any DNSKEY record succeeds, and read over exactly the emitted
\* bytes, with rdata_length the number of emitted bytes, returns Ok with a
\* record equal to the emitted one in every field, each flag with its own value.
C1_RoundTrip ==
  /\ (AfterEmit /\ rdata.tag = "DNSKEY") => emit_result = "Ok"
  /\ EndsWith(pc, << "emit", "new_decoder", "read" >>) =>
       /\ rdata_length = Len(bytes) - Len(prior)
       /\ read_rdata = Ok(rdata)
       /\ read_rdata.val.zone_key = rdata.zone_key
       /\ read_rdata.val.secure_entry_point = rdata.secure_entry_point
       /\ read_rdata.val.revoke = rdata.revoke

C1_Witness ==
  /\ pc = << "emit", "new_decoder", "read" >>
  /\ prior # <<>>
  /\ read_rdata.tag = "Ok"
  /\ rdata.revoke /\ ~rdata.zone_key /\ ~rdata.secure_entry_point
  /\ rdata.public_key = <<>>

\* C2: with rdata_length below 4 and a well-formed four byte header, read
\* returns a length/underflow error: it neither panics nor wraps the
\* subtraction and reads the wrapped length.
C2_UnderflowIsAnError ==
  (AfterRead /\ rdata_length < 4 /\ HeaderOk) =>
     /\ read_rdata.tag = "Err"
     /\ read_rdata.err.kind = "Underflow"

\* C3: whenever the third octet p of the input is not 3, read returns
\* DnsKeyProtocolNot3(p) with exactly that octet, whatever the flags, the
\* following octets and rdata_length are; with p = 3 it never returns it.
C3_ProtocolEnforced ==
  (AfterRead /\ Avail >= 3) =>
     IF At(3) # 3
     THEN read_rdata = Err(DnsKeyProtocolNot3(At(3)))
     ELSE read_rdata.err.kind # "DnsKeyProtocolNot3"

C3_Witness ==
  /\ AfterRead
  /\ Avail = 3
  /\ rdata_length = 0
  /\ At(3) = 2
  /\ read_rdata = Err(DnsKeyProtocolNot3(2))

\* C4: for every 16-bit flags value in front of a well-formed rest, read
\* succeeds and zone_key, secure_entry_point and revoke are bits 0x0100,
\* 0x0001 and 0x0080 of it; the reserved bits change nothing.
C4_ReservedBitsIgnored ==
  (AfterRead /\ HeaderOk /\ rdata_length >= 4 /\ Avail >= rdata_length) =>
     /\ read_rdata.tag = "Ok"
     /\ read_rdata.val.zone_key = (At(1) % 2 = 1)
     /\ read_rdata.val.secure_entry_point = (At(2) % 2 = 1)
     /\ read_rdata.val.revoke = (At(2) \div 128 = 1)
     /\ read_rdata.val.algorithm \in Algorithms
     /\ AlgorithmToU8(read_rdata.val.algorithm) = At(4)

C4_Witness ==
  /\ pc = << "read" >>
  /\ At(1) = 126 /\ At(2) = 126
  /\ read_rdata.tag = "Ok"
  /\ ~read_rdata.val.zone_key
  /\ ~read_rdata.val.secure_entry_point
  /\ ~read_rdata.val.revoke

\* C5: with rdata_length = 4 + k and at least 4 + k well-formed bytes, the
\* public_key is the k bytes at offsets 4..4+k-1 in order (empty for k = 0)
\* and the cursor has advanced by exactly rdata_length.
C5_KeyLengthDerived ==
  (AfterRead /\ HeaderOk /\ rdata_length >= 4 /\ Avail >= rdata_length) =>
     /\ read_rdata.tag = "Ok"
     /\ Len(read_rdata.val.public_key) = rdata_length - 4
     /\ \A i \in 1..(rdata_length - 4) : read_rdata.val.public_key[i] = At(4 + i)
     /\ index = Len(prior) + rdata_length

C5_Witness ==
  /\ pc = << "read" >>
  /\ Len(buffer) = 6
  /\ rdata_length = 5
  /\ read_rdata.tag = "Ok"
  /\ read_rdata.val.public_key = << buffer[5] >>
  /\ index = 5

\* C6: after emit of a DNSKEY record the encoder holds its prior content,
\* unchanged, followed by exactly 4 + len(public_key) bytes: the big-endian
\* flags with only the defined bits, 3, the algorithm's byte, the key verbatim.
C6_WireLayout ==
  (AfterEmit /\ rdata.tag = "DNSKEY") =>
     /\ Len(bytes) = Len(prior) + 4 + Len(rdata.public_key)
     /\ bytes = prior \o << FlagsHi(rdata), FlagsLo(rdata), 3, AlgorithmToU8(rdata.algorithm) >>
                      \o rdata.public_key

C6_Witness ==
  /\ pc = << "emit" >>
  /\ prior # <<>>
  /\ rdata.tag = "DNSKEY"
  /\ rdata.zone_key /\ rdata.secure_entry_point /\ rdata.revoke
  /\ Len(rdata.public_key) = 2
  /\ SubSeq(bytes, Len(prior) + 1, Len(prior) + 3) = << 1, 129, 3 >>

\* C7: with rdata_length >= 4 and fewer than rdata_length bytes in the cursor
\* read returns an error and no record; an Ok carries all five fields, read
\* from the input, and a key of rdata_length - 4 bytes.
C7_NoPartialResult ==
  AfterRead =>
     /\ (rdata_length >= 4 /\ Avail < rdata_length) =>
           (read_rdata.tag = "Err" /\ read_rdata.val = NoRData)
     /\ read_rdata.tag = "Ok" =>
           /\ Avail >= 4
           /\ DOMAIN read_rdata.val =
                {"tag", "zone_key", "secure_entry_point", "revoke", "algorithm", "public_key"}
           /\ FlagsHi(read_rdata.val) = At(1) % 2
           /\ FlagsLo(read_rdata.val) = (At(2) \div 128) * 128 + (At(2) % 2)
           /\ At(3) = 3
           /\ AlgorithmToU8(read_rdata.val.algorithm) = At(4)
           /\ rdata_length >= 4 => Len(read_rdata.val.public_key) = rdata_length - 4
           /\ read_rdata.val.public_key
                = SubSeq(buffer, Len(prior) + 5, Len(prior) + 4 + Len(read_rdata.val.public_key))

C7_Witness ==
  /\ pc = << "read" >>
  /\ HeaderOk
  /\ Len(buffer) = 5
  /\ rdata_length = 6
  /\ read_rdata = Err(EOF)

\* C8: emit of an RData value that is not the DNSKEY variant panics, having
\* appended nothing; emit of a DNSKEY value never panics.
C8_VariantMismatchPanics ==
  AfterEmit =>
     /\ rdata.tag # "DNSKEY" => (emit_result = "Panic" /\ bytes = prior)
     /\ rdata.tag = "DNSKEY" => emit_result # "Panic"

C8_Witness ==
  /\ pc = << "emit" >>
  /\ rdata.tag = "NULL"
  /\ prior # <<>>
  /\ emit_result = "Panic"

\* C9: when read(b, len(b)) succeeds with r, emit(r) gives b with the flag
\* bits outside 0x0181 cleared and every other byte kept, reading that back
\* gives r again, and emitting once more gives the same bytes.
C9_Normalisation ==
  /\ (pc = << "read", "new_encoder", "emit" >> /\ rdata_length = Len(buffer)) =>
        /\ emit_result = "Ok"
        /\ bytes = << buffer[1] % 2, (buffer[2] \div 128) * 128 + (buffer[2] % 2) >>
                    \o SubSeq(buffer, 3, Len(buffer))
  /\ pc = << "read", "new_encoder", "emit", "new_decoder", "read" >> =>
        read_rdata = Ok(rdata)
  /\ pc = << "read", "new_encoder", "emit", "new_decoder", "read", "new_encoder", "emit" >> =>
        (emit_result = "Ok" /\ bytes = buffer)

C9_Witness ==
  /\ pc = << "read", "new_encoder", "emit" >>
  /\ rdata_length = Len(buffer)
  /\ buffer[1] = 255 /\ buffer[2] = 8
  /\ bytes # buffer
  /\ bytes[1] = 1 /\ bytes[2] = 0

\* C10: errors of read come in field order: a truncation error for fewer than
\* 3 bytes, DnsKeyProtocolNot3 for a protocol other than 3, the algorithm's
\* error unchanged, each whatever rdata_length is; the underflow outcome for
\* rdata_length < 4 arises only after the three fields were read and is
\* distinct from the truncation error.
C10_ErrorPrecedence ==
  AfterRead =>
     /\ Avail < 3 => read_rdata = Err(EOF)
     /\ (Avail >= 3 /\ At(3) # 3) => read_rdata = Err(DnsKeyProtocolNot3(At(3)))
     /\ (Avail >= 4 /\ At(3) = 3 /\ At(4) \notin AlgorithmBytes) =>
           read_rdata = Err(UnknownAlgorithmTypeValue(At(4)))
     /\ read_rdata.tag = "Panic" => (HeaderOk /\ rdata_length < 4)
     /\ (HeaderOk /\ rdata_length < 4) => read_rdata # Err(EOF)
====
